---- MODULE Spec2Model ----
(***************************************************************************)
(* A model of src/app.py: the Session State initializer, the message      *)
(* renderer, the de-duplicating relay around the agent loop adapter, the  *)
(* HTTP streaming relay (/api/process-input) and the Secondary            *)
(* Orchestrator (/api/process_input_api_using_model).                     *)
(*                                                                         *)
(* Python text is modelled by TLA+ strings (Len, SubSeq, \o act on them   *)
(* character by character).  An optional value (None or a value) is a     *)
(* sequence of length 0 or 1.                                              *)
(***************************************************************************)
EXTENDS Integers, Sequences, FiniteSets, TLC

VARIABLES
    pc,                     \* position of the running handler / generator
    chunks,                 \* SSE chunks emitted so far on the response stream
    state,                  \* the Session State mapping of the request
    conversation_log,       \* response_generator: conversation_log
    current_prompt,         \* response_generator: current_prompt
    message,                \* the for-loop variable `message` (<<>>: unbound)
    followup_content,       \* response_generator: followup_content
    exc,                    \* text of the exception the outer handler caught
    adapter_exc,            \* text of the exception the adapter raised (line 515)
    accumulated_messages,   \* accumulate_messages: accumulated_messages
    yielded,                \* what the adapter yielded in the current relay call
    relayed,                \* what accumulate_messages yielded in that call
    adapterCalls,           \* number of sampling_loop_sync invocations
    plannerCalls,           \* number of planning LLM invocations
    plannerReplies,         \* the replies the planning LLM gave, in order
    iter,                   \* number of EXECUTE steps started
    env_API_PROVIDER,       \* os.getenv("API_PROVIDER") (<<>>: unset)
    platform_system,        \* platform.system()
    storage,                \* CONFIG_DIR: file name -> file text
    SELECTED_SCREEN_INDEX,  \* the process-wide global of line 52
    user_input,             \* the user's text of the request
    req_header,             \* the anthropic-api-key header (<<>>: missing)
    req_body,               \* the request body of /api/process-input
    body_read,              \* whether request.json() has been awaited
    http_status,            \* the status the request was answered with
    setup_calls,            \* number of setup_state calls that returned
    setup_snapshot,         \* the mapping as the first returning call left it
    render_message,         \* the message handed to _render_message
    render_result,          \* what _render_message returned
    raw_image,              \* the bytes render_message's image was encoded from
    setup_initial,          \* the last setup_state call: its argument, whether it raised
    dir_exists,             \* whether CONFIG_DIR exists
    last_save,              \* the last save_to_storage call and its outcome
    last_load,              \* the load_from_storage call made after it
    now,                    \* the value datetime.now() returns
    captured,               \* the responses handed to _api_response_callback
    ui_output,              \* what process_input yielded to the chat UI
    heap,                   \* the mutable objects of the process, by identity
    reqs                    \* the HTTP requests in flight

vars == <<pc, chunks, state, conversation_log, current_prompt, message,
          followup_content, exc, adapter_exc, accumulated_messages, yielded,
          relayed,
          adapterCalls, plannerCalls, plannerReplies, iter,
          env_API_PROVIDER, platform_system, storage, SELECTED_SCREEN_INDEX,
          user_input, req_header, req_body, body_read, http_status,
          setup_calls, setup_snapshot, render_message, render_result, raw_image,
          setup_initial, dir_exists, last_save, last_load, now, captured,
          ui_output, heap, reqs>>

(***************************************************************************)
(* Bounds of the model.                                                    *)
(***************************************************************************)
MaxIter == 2
MaxYield == 2
RelayMaxYield == 3
MaxSetupCalls == 2
MaxImageLen == 3

(***************************************************************************)
(* Python text operations.                                                 *)
(***************************************************************************)
CharAt(s, i) == SubSeq(s, i, i)

LowerLetters == "abcdefghijklmnopqrstuvwxyz"
UpperLetters == "ABCDEFGHIJKLMNOPQRSTUVWXYZ"

\* str.upper() on one character
UpperChar(c) ==
    IF \E i \in 1..Len(LowerLetters) : CharAt(LowerLetters, i) = c
    THEN CharAt(UpperLetters,
                CHOOSE i \in 1..Len(LowerLetters) : CharAt(LowerLetters, i) = c)
    ELSE c

\* str.upper()
RECURSIVE upper(_)
upper(s) == IF s = "" THEN "" ELSE UpperChar(CharAt(s, 1)) \o upper(Tail(s))

\* the characters str.strip() removes
Whitespace == {" ", "\n", "\t", "\r"}

RECURSIVE lstrip(_)
lstrip(s) ==
    IF s # "" /\ CharAt(s, 1) \in Whitespace THEN lstrip(Tail(s)) ELSE s

RECURSIVE rstrip(_)
rstrip(s) ==
    IF s # "" /\ CharAt(s, Len(s)) \in Whitespace
    THEN rstrip(SubSeq(s, 1, Len(s) - 1))
    ELSE s

\* str.strip()
strip(s) == rstrip(lstrip(s))

\* `needle in hay` on two str values
StrIn(needle, hay) ==
    \E i \in 0..(Len(hay) - Len(needle)) :
        SubSeq(hay, i + 1, i + Len(needle)) = needle

\* str.startswith
StartsWith(s, prefix) ==
    Len(s) >= Len(prefix) /\ SubSeq(s, 1, Len(prefix)) = prefix

(***************************************************************************)
(* Optional values and dict values.                                        *)
(***************************************************************************)
None == <<>>
Some(v) == <<v>>

\* Python truthiness of an optional str
StrTruthy(o) == o # None /\ o[1] # ""

DictHas(d, k) == k \in DOMAIN d
DictSet(d, k, v) == [x \in (DOMAIN d) \cup {k} |-> IF x = k THEN v ELSE d[x]]
EmptyDict == <<>>

(***************************************************************************)
(* Module-level constants of app.py and the provider table it imports.    *)
(***************************************************************************)
ANTHROPIC_KEY == "*************************FILL THE API KEY************************"
ORCH_API_KEY == "**********************************************************************"
SenderUSER == "user"
SenderBOT == "assistant"
APIProviderANTHROPIC == "anthropic"

\* computer_use_demo.loop.PROVIDER_TO_DEFAULT_MODEL_NAME (imported, line 38)
PROVIDER_TO_DEFAULT_MODEL_NAME ==
    [p \in {"anthropic", "bedrock", "vertex"} |->
        CASE p = "anthropic" -> "claude-3-5-sonnet-20241022"
          [] p = "bedrock" -> "anthropic.claude-3-5-sonnet-20241022-v2:0"
          [] p = "vertex" -> "claude-3-5-sonnet-v2@20241022"]

(***************************************************************************)
(* Credential store: load_from_storage.                                    *)
(***************************************************************************)
\* the file names of CONFIG_DIR the program reads
StorageFiles == {"system_prompt"}

load_from_storage(filename) ==
    IF storage[filename] # None
    THEN LET data == strip(storage[filename][1])
         IN IF data # "" THEN Some(data) ELSE None
    ELSE None

(***************************************************************************)
(* setup_state and _reset_model.  The mapping is mutated in place, so a   *)
(* call that raises leaves the keys set before the raise.                  *)
(***************************************************************************)
Returned(st) == [raised |-> FALSE, st |-> st]
Raised(st) == [raised |-> TRUE, st |-> st]

\* lines 95-96 with the default provider's model, whatever the state's provider
_reset_modelOfAnthropic(st) ==
    Returned(DictSet(st, "model", PROVIDER_TO_DEFAULT_MODEL_NAME[APIProviderANTHROPIC]))

\* lines 95-96
_reset_model(st) ==
    IF st["provider"] \in DOMAIN PROVIDER_TO_DEFAULT_MODEL_NAME
    THEN Returned(DictSet(st, "model", PROVIDER_TO_DEFAULT_MODEL_NAME[st["provider"]]))
    ELSE Raised(st)

\* line 73: os.getenv("API_PROVIDER", "anthropic") or APIProvider.ANTHROPIC
DefaultProvider ==
    LET got == IF env_API_PROVIDER = None THEN "anthropic" ELSE env_API_PROVIDER[1]
    IN IF got # "" THEN got ELSE APIProviderANTHROPIC

\* line 89
device_os_name ==
    IF platform_system = "Windows" THEN "Windows"
    ELSE IF platform_system = "Darwin" THEN "Mac" ELSE "Linux"

\* lines 86-90
DefaultSystemPrompt ==
    LET loaded == load_from_storage("system_prompt")
        base == IF StrTruthy(loaded) THEN loaded[1] ELSE ""
    IN base \o "\n\nNOTE: you are operating a " \o device_os_name \o " machine"

only_n_most_recent_images_default == 2

\* lines 78-92 with line 90 outside the `if` of line 86: the platform note
\* is appended on every call
SetupStateTailAlwaysNote(s5) ==
    LET s6 == IF DictHas(s5, "auth_validated") THEN s5
              ELSE DictSet(s5, "auth_validated", FALSE)
        s7 == IF DictHas(s6, "responses") THEN s6
              ELSE DictSet(s6, "responses", EmptyDict)
        s8 == IF DictHas(s7, "tools") THEN s7 ELSE DictSet(s7, "tools", EmptyDict)
        s9 == IF DictHas(s8, "only_n_most_recent_images") THEN s8
              ELSE DictSet(s8, "only_n_most_recent_images",
                           only_n_most_recent_images_default)
        s10 == IF DictHas(s9, "custom_system_prompt")
               THEN DictSet(s9, "custom_system_prompt",
                            s9["custom_system_prompt"]
                                \o "\n\nNOTE: you are operating a "
                                \o device_os_name \o " machine")
               ELSE DictSet(s9, "custom_system_prompt", DefaultSystemPrompt)
        s11 == IF DictHas(s10, "hide_images") THEN s10
               ELSE DictSet(s10, "hide_images", FALSE)
    IN s11

\* lines 78-92, after the model has been set
SetupStateTail(s5) ==
    LET s6 == IF DictHas(s5, "auth_validated") THEN s5
              ELSE DictSet(s5, "auth_validated", FALSE)
        s7 == IF DictHas(s6, "responses") THEN s6
              ELSE DictSet(s6, "responses", EmptyDict)
        s8 == IF DictHas(s7, "tools") THEN s7 ELSE DictSet(s7, "tools", EmptyDict)
        s9 == IF DictHas(s8, "only_n_most_recent_images") THEN s8
              ELSE DictSet(s8, "only_n_most_recent_images",
                           only_n_most_recent_images_default)
        s10 == IF DictHas(s9, "custom_system_prompt") THEN s9
               ELSE DictSet(s9, "custom_system_prompt", DefaultSystemPrompt)
        s11 == IF DictHas(s10, "hide_images") THEN s10
               ELSE DictSet(s10, "hide_images", FALSE)
    IN s11

setup_state(st) ==
    LET s1 == IF DictHas(st, "messages") THEN st ELSE DictSet(st, "messages", <<>>)
        s2 == IF DictHas(s1, "api_key") THEN s1
              ELSE DictSet(s1, "api_key", ANTHROPIC_KEY)
        s3 == IF DictHas(s2, "provider") THEN s2
              ELSE DictSet(s2, "provider", DefaultProvider)
        s4 == IF DictHas(s3, "provider_radio") THEN s3
              ELSE DictSet(s3, "provider_radio", s3["provider"])
        r5 == IF DictHas(s4, "model") THEN Returned(s4) ELSE _reset_model(s4)
    IN IF r5.raised THEN r5 ELSE Returned(SetupStateTail(r5.st))

(***************************************************************************)
(* Values exchanged with the two external services.                        *)
(***************************************************************************)
\* A message the adapter yields: a str, or an object that is not a str
\* (a content block, a ToolResult); text is what str(message) gives.
StrMsg(t) == [kind |-> "str", text |-> t]
ObjMsg(t) == [kind |-> "obj", text |-> t]

AdapterMessages == {StrMsg("a"), StrMsg("b"), ObjMsg("ToolResult(output='a')")}
AdapterErrors == {"boom"}
PlannerErrors == {"rate limit"}
PlannerReplyTexts ==
    {"FINAL RESPONSE", " The final Response.\n", "FINAL_RESPONSE", "click ok"}

\* f"{message}"
Format(m) == m.text

\* json.dumps accepts str content and raises TypeError on any other object
JsonSerializable(log) == \A i \in 1..Len(log) : log[i].content.kind = "str"

UserMessage(text) ==
    [role |-> SenderUSER, content |-> <<[type |-> "text", text |-> text]>>]

LogEntry(role, content) == [role |-> role, content |-> content]

SENTINEL == "FINAL RESPONSE"

\* line 541 without .upper(): a case-sensitive search
IsFinalResponseCaseSensitive(content) == StrIn(SENTINEL, content)

\* line 541
IsFinalResponse(content) == StrIn(SENTINEL, upper(content))

(***************************************************************************)
(* SSE chunks of response_generator (lines 485, 513, 518, 533, 542, 555). *)
(***************************************************************************)
PlanChunk(prompt) == "data: OpenAI Processed Input:\n" \o prompt \o "\n\n"
\* line 513 without its prefix, as line 456 formats a message
AnthropicChunkNoPrefix(m) == "data: " \o Format(m) \o "\n\n"
AnthropicChunk(m) == "data: Anthropic Response: " \o Format(m) \o "\n\n"
AdapterErrorMessage(e) == "Error from Anthropic: " \o e
FollowUpChunk(content) == "data: OpenAI Follow-Up:\n" \o content \o "\n\n"
ClosedChunk == "data: Conversation closed by OpenAI.\n\n"
OuterErrorMessage(e) == "Error: " \o e
DataChunk(text) == "data: " \o text \o "\n\n"

(***************************************************************************)
(* Line 10 binds the name `datetime` to the class datetime.datetime, so   *)
(* the expression datetime.datetime of line 552 looks the attribute        *)
(* `datetime` up on that class.                                            *)
(***************************************************************************)
DatetimeBinding == "class"
DatetimeClassAttributes == {"now", "utcnow", "today", "fromtimestamp", "isoformat"}
DatetimeModuleAttributes == {"datetime", "date", "time", "timedelta"}
TimestampRaises ==
    "datetime" \notin (IF DatetimeBinding = "class" THEN DatetimeClassAttributes
                       ELSE DatetimeModuleAttributes)

(***************************************************************************)
(* accumulate_messages (lines 221-234): one pull from sampling_loop_sync.  *)
(***************************************************************************)
\* line 231 comparing with the previous message only
AlreadyAccumulatedLastOnly(m, acc) == acc # <<>> /\ acc[Len(acc)] = m

\* line 231
AlreadyAccumulated(m, acc) == \E i \in 1..Len(acc) : acc[i] = m

\* lines 225-228: the generator starts
AccumulateStart ==
    /\ accumulated_messages' = <<>>
    /\ yielded' = <<>>
    /\ relayed' = <<>>
    /\ adapterCalls' = adapterCalls + 1

\* lines 229-234: the adapter yields m; TRUE in the result when m is relayed
AccumulateNext(m) ==
    /\ yielded' = Append(yielded, m)
    /\ adapterCalls' = adapterCalls
    /\ IF AlreadyAccumulated(m, accumulated_messages)
       THEN UNCHANGED <<accumulated_messages, relayed>>
       ELSE /\ accumulated_messages' = Append(accumulated_messages, m)
            /\ relayed' = Append(relayed, m)

(***************************************************************************)
(* base64.b64encode and base64.b64decode on byte sequences.                *)
(***************************************************************************)
B64Alphabet == "ABCDEFGHIJKLMNOPQRSTUVWXYZabcdefghijklmnopqrstuvwxyz0123456789+/"
B64Char(v) == CharAt(B64Alphabet, v + 1)
B64Value(c) ==
    (CHOOSE i \in 1..Len(B64Alphabet) : CharAt(B64Alphabet, i) = c) - 1

RECURSIVE b64encode(_)
b64encode(bs) ==
    IF bs = <<>> THEN ""
    ELSE IF Len(bs) = 1
    THEN LET n == bs[1] * 16
         IN B64Char(n \div 64) \o B64Char(n % 64) \o "=="
    ELSE IF Len(bs) = 2
    THEN LET n == (bs[1] * 256 + bs[2]) * 4
         IN B64Char(n \div 4096) \o B64Char((n \div 64) % 64)
                \o B64Char(n % 64) \o "="
    ELSE LET n == bs[1] * 65536 + bs[2] * 256 + bs[3]
         IN B64Char(n \div 262144) \o B64Char((n \div 4096) % 64)
                \o B64Char((n \div 64) % 64) \o B64Char(n % 64)
                \o b64encode(SubSeq(bs, 4, Len(bs)))

RECURSIVE b64decode(_)
b64decode(s) ==
    IF s = "" THEN <<>>
    ELSE LET v1 == B64Value(CharAt(s, 1))
             v2 == B64Value(CharAt(s, 2))
         IN IF SubSeq(s, 3, 4) = "=="
            THEN <<(v1 * 64 + v2) \div 16>>
            ELSE IF CharAt(s, 4) = "="
            THEN LET n == (v1 * 4096 + v2 * 64 + B64Value(CharAt(s, 3))) \div 4
                 IN <<n \div 256, n % 256>>
            ELSE LET n == v1 * 262144 + v2 * 4096
                            + B64Value(CharAt(s, 3)) * 64 + B64Value(CharAt(s, 4))
                 IN <<n \div 65536, (n \div 256) % 256, n % 256>>
                        \o b64decode(SubSeq(s, 5, Len(s)))

(***************************************************************************)
(* _render_message (lines 160-186).  A message is a str, a ToolResult (or  *)
(* an object whose class is named ToolResult or CLIResult), a text block   *)
(* or a tool-use block; attrs are the attributes the object has.           *)
(***************************************************************************)
ToolResultAttrs == {"output", "error", "base64_image", "system"}

MessageValue(cls, attrs, text, output, error, image, name, input) ==
    [cls |-> cls, attrs |-> attrs, text |-> text, output |-> output,
     error |-> error, base64_image |-> image, name |-> name, input |-> input]

StrMessage(text) == MessageValue("str", {}, text, None, None, None, "", "")
ToolResult(output, error, image) ==
    MessageValue("ToolResult", ToolResultAttrs, "", output, error, image, "", "")
CLIResult(output, error, image) ==
    MessageValue("CLIResult", ToolResultAttrs, "", output, error, image, "", "")
\* an object of another class that is also named ToolResult and has only
\* an image
ImageOnlyObject(image) ==
    MessageValue("ToolResult", {"base64_image"}, "", None, None, image, "", "")
BetaTextBlock(text) == MessageValue("BetaTextBlock", {"text"}, text, None, None, None, "", "")
BetaToolUseBlock(name, input) ==
    MessageValue("BetaToolUseBlock", {"name", "input"}, "", None, None, None, name, input)
NoMessage == MessageValue("none", {}, "", None, None, None, "", "")

\* what _render_message gives back
RenderNone == [kind |-> "None", text |-> "", bytes |-> <<>>]
RenderStr(t) == [kind |-> "str", text |-> t, bytes |-> <<>>]
RenderBytes(b) == [kind |-> "bytes", text |-> "", bytes |-> b]
RenderRaises == [kind |-> "AttributeError", text |-> "", bytes |-> <<>>]
RenderUnset == [kind |-> "unset", text |-> "", bytes |-> <<>>]

\* lines 161-165
is_tool_result(m) == m.cls # "str" /\ m.cls \in {"ToolResult", "CLIResult"}

hasattr(m, a) == a \in m.attrs

\* ToolResult.__bool__ of computer_use_demo.tools: any field is set
ToolResultTruthy(m) ==
    StrTruthy(m.output) \/ StrTruthy(m.error) \/ StrTruthy(m.base64_image)

\* bool(message)
MessageTruthy(m) ==
    IF m.cls = "str" THEN m.text # ""
    ELSE IF m.attrs = ToolResultAttrs THEN ToolResultTruthy(m)
    ELSE TRUE

\* lines 173-180 with the error looked at before the output
RenderToolResultErrorFirst(m, hide_images) ==
    IF ~hasattr(m, "error") THEN RenderRaises
    ELSE IF StrTruthy(m.error) THEN RenderStr("Error: " \o m.error[1])
    ELSE IF StrTruthy(m.output) THEN RenderStr(m.output[1])
    ELSE IF StrTruthy(m.base64_image) /\ ~hide_images
    THEN RenderBytes(b64decode(m.base64_image[1]))
    ELSE RenderNone

\* lines 173-180 without the hide_images test of line 179
RenderToolResultIgnoreHide(m, hide_images) ==
    IF ~hasattr(m, "output") THEN RenderRaises
    ELSE IF StrTruthy(m.output) THEN RenderStr(m.output[1])
    ELSE IF ~hasattr(m, "error") THEN RenderRaises
    ELSE IF StrTruthy(m.error) THEN RenderStr("Error: " \o m.error[1])
    ELSE IF StrTruthy(m.base64_image)
    THEN RenderBytes(b64decode(m.base64_image[1]))
    ELSE RenderNone

\* lines 173-180
RenderToolResult(m, hide_images) ==
    IF ~hasattr(m, "output") THEN RenderRaises
    ELSE IF StrTruthy(m.output) THEN RenderStr(m.output[1])
    ELSE IF ~hasattr(m, "error") THEN RenderRaises
    ELSE IF StrTruthy(m.error) THEN RenderStr("Error: " \o m.error[1])
    ELSE IF StrTruthy(m.base64_image) /\ ~hide_images
    THEN RenderBytes(b64decode(m.base64_image[1]))
    ELSE RenderNone

_render_message(sender, m, st) ==
    IF \/ ~MessageTruthy(m)
       \/ /\ is_tool_result(m)
          /\ st["hide_images"]
          /\ ~hasattr(m, "error")
          /\ ~hasattr(m, "output")
    THEN RenderNone
    ELSE IF is_tool_result(m) THEN RenderToolResult(m, st["hide_images"])
    ELSE IF m.cls \in {"BetaTextBlock", "TextBlock"} THEN RenderStr(m.text)
    ELSE IF m.cls \in {"BetaToolUseBlock", "ToolUseBlock"}
    THEN RenderStr("Tool Use: " \o m.name \o "\nInput: " \o m.input)
    ELSE RenderStr(m.text)

envVars == <<env_API_PROVIDER, platform_system, storage, SELECTED_SCREEN_INDEX>>
relayVars == <<accumulated_messages, yielded, relayed, adapterCalls>>
httpVars == <<req_header, req_body, body_read, http_status>>
orchVars == <<conversation_log, current_prompt, message, followup_content, exc,
              plannerCalls, plannerReplies, iter>>

\* what the orchestrator's steps never touch
setupVars == <<setup_calls, setup_snapshot, setup_initial>>
renderVars == <<render_message, render_result, raw_image>>
storageVars == <<dir_exists, last_save, last_load>>
callbackVars == <<now, captured>>
concVars == <<heap, reqs>>
sideVars == <<storageVars, callbackVars, ui_output, concVars>>
pureVars == <<setupVars, renderVars, sideVars>>
nonOrchVars == <<user_input, httpVars, pureVars>>

\* the values of the variables a specification does not use
IdleHttp ==
    /\ req_header = None
    /\ req_body = None
    /\ body_read = FALSE
    /\ http_status = None
IdleSetup ==
    /\ setup_calls = 0
    /\ setup_snapshot = None
    /\ setup_initial = None
IdleStorage ==
    /\ dir_exists = TRUE
    /\ last_save = None
    /\ last_load = None
IdleCallback ==
    /\ now = 0
    /\ captured = <<>>
IdleConc ==
    /\ heap = <<>>
    /\ reqs = <<>>
IdleSide ==
    /\ IdleStorage
    /\ IdleCallback
    /\ ui_output = None
    /\ IdleConc
IdleRender ==
    /\ render_message = NoMessage
    /\ render_result = RenderUnset
    /\ raw_image = <<>>
IdleRelay ==
    /\ accumulated_messages = <<>>
    /\ yielded = <<>>
    /\ relayed = <<>>
    /\ adapterCalls = 0
    /\ adapter_exc = None
    /\ chunks = <<>>
IdleOrch ==
    /\ conversation_log = <<>>
    /\ current_prompt = ""
    /\ message = None
    /\ followup_content = ""
    /\ exc = None
    /\ plannerCalls = 0
    /\ plannerReplies = <<>>
    /\ iter = 0

(***************************************************************************)
(* The Secondary Orchestrator: process_input_loop.response_generator.      *)
(***************************************************************************)
OrchInit ==
    /\ pc = "PLAN"
    /\ state = EmptyDict
    /\ IdleOrch
    /\ IdleRelay
    /\ IdleHttp
    /\ IdleSetup
    /\ IdleRender
    /\ IdleSide
    /\ env_API_PROVIDER \in {None, Some("bogus")}
    /\ platform_system = "Linux"
    /\ storage = [f \in StorageFiles |-> None]
    /\ SELECTED_SCREEN_INDEX = 0
    /\ user_input = "open the browser"

\* lines 474-485: PLAN
Plan ==
    /\ pc = "PLAN"
    /\ plannerCalls' = plannerCalls + 1
    /\ \/ \E e \in PlannerErrors :
            /\ exc' = Some(e)
            /\ pc' = "EXCEPT"
            /\ UNCHANGED <<chunks, conversation_log, current_prompt, plannerReplies>>
       \/ \E r \in PlannerReplyTexts :
            /\ plannerReplies' = Append(plannerReplies, r)
            /\ current_prompt' = strip(r)
            /\ conversation_log' =
                    Append(conversation_log, LogEntry("OpenAI", StrMsg(strip(r))))
            /\ chunks' = Append(chunks, PlanChunk(strip(r)))
            /\ pc' = "SETUP"
            /\ exc' = exc
    /\ UNCHANGED <<state, message, followup_content, iter>>
    /\ UNCHANGED <<relayVars, envVars, adapter_exc>>
    /\ UNCHANGED nonOrchVars

\* lines 487-489
Setup ==
    /\ pc = "SETUP"
    /\ LET r == setup_state(EmptyDict)
       IN IF r.raised
          THEN /\ state' = r.st
               /\ exc' = Some("'" \o r.st["provider"] \o "'")
               /\ pc' = "EXCEPT"
          ELSE /\ state' = DictSet(r.st, "api_key", ORCH_API_KEY)
               /\ exc' = exc
               /\ pc' = "EXECUTE"
    /\ UNCHANGED <<chunks, conversation_log, current_prompt, message,
                   followup_content, plannerCalls, plannerReplies, iter>>
    /\ UNCHANGED <<relayVars, envVars, adapter_exc>>
    /\ UNCHANGED nonOrchVars

\* lines 493-511 with the Session State re-initialized in every iteration
ExecuteStartFreshState ==
    /\ pc = "EXECUTE"
    /\ iter < MaxIter
    /\ iter' = iter + 1
    /\ state' = DictSet(state, "messages", <<UserMessage(current_prompt)>>)
    /\ AccumulateStart
    /\ pc' = "RELAY"
    /\ UNCHANGED <<chunks, conversation_log, current_prompt, message,
                   followup_content, exc, plannerCalls, plannerReplies>>
    /\ UNCHANGED <<envVars, adapter_exc>>
    /\ UNCHANGED nonOrchVars

\* lines 493-511: EXECUTE begins; the sub-task prompt is appended and the
\* relay generator is created
ExecuteStart ==
    /\ pc = "EXECUTE"
    /\ iter < MaxIter
    /\ iter' = iter + 1
    /\ state' = DictSet(state, "messages",
                        Append(state["messages"], UserMessage(current_prompt)))
    /\ AccumulateStart
    /\ pc' = "RELAY"
    /\ UNCHANGED <<chunks, conversation_log, current_prompt, message,
                   followup_content, exc, plannerCalls, plannerReplies>>
    /\ UNCHANGED <<envVars, adapter_exc>>
    /\ UNCHANGED nonOrchVars

\* lines 229-234 and 512-513: the adapter yields one message
ExecuteYield ==
    /\ pc = "RELAY"
    /\ Len(yielded) < MaxYield
    /\ \E m \in AdapterMessages :
        /\ AccumulateNext(m)
        /\ IF AlreadyAccumulated(m, accumulated_messages)
           THEN UNCHANGED <<message, conversation_log, chunks>>
           ELSE /\ message' = Some(m)
                /\ conversation_log' =
                        Append(conversation_log, LogEntry("Anthropic", m))
                /\ chunks' = Append(chunks, AnthropicChunk(m))
    /\ UNCHANGED <<pc, state, current_prompt, followup_content, exc,
                   plannerCalls, plannerReplies, iter>>
    /\ UNCHANGED <<envVars, adapter_exc>>
    /\ UNCHANGED nonOrchVars

\* the adapter's sequence is exhausted: the for loop of line 501 ends
ExecuteExhausted ==
    /\ pc = "RELAY"
    /\ pc' = "DECIDE"
    /\ UNCHANGED <<chunks, state, conversation_log, current_prompt, message,
                   followup_content, exc, plannerCalls, plannerReplies, iter>>
    /\ UNCHANGED <<relayVars, envVars, adapter_exc>>
    /\ UNCHANGED nonOrchVars

\* lines 515-519 without the break of line 519
ExecuteRaisesNoBreak ==
    /\ pc = "RELAY"
    /\ \E e \in AdapterErrors :
        /\ conversation_log' =
                Append(conversation_log,
                       LogEntry("Anthropic", StrMsg(AdapterErrorMessage(e))))
        /\ chunks' = Append(chunks, DataChunk(AdapterErrorMessage(e)))
        /\ adapter_exc' = Some(e)
    /\ pc' = "DECIDE"
    /\ UNCHANGED <<state, current_prompt, message, followup_content, exc,
                   plannerCalls, plannerReplies, iter>>
    /\ UNCHANGED <<relayVars, envVars>>
    /\ UNCHANGED nonOrchVars

\* lines 515-519: the adapter raises
ExecuteRaises ==
    /\ pc = "RELAY"
    /\ \E e \in AdapterErrors :
        /\ conversation_log' =
                Append(conversation_log,
                       LogEntry("Anthropic", StrMsg(AdapterErrorMessage(e))))
        /\ chunks' = Append(chunks, DataChunk(AdapterErrorMessage(e)))
        /\ adapter_exc' = Some(e)
    /\ pc' = "FAILED"
    /\ UNCHANGED <<state, current_prompt, message, followup_content, exc,
                   plannerCalls, plannerReplies, iter>>
    /\ UNCHANGED <<relayVars, envVars>>
    /\ UNCHANGED nonOrchVars

\* lines 522-533: DECIDE
Decide ==
    /\ pc = "DECIDE"
    /\ IF message = None
       THEN \* line 526 reads `message`, which no iteration has bound
            /\ exc' = Some("cannot access local variable 'message' where it is not associated with a value")
            /\ pc' = "EXCEPT"
            /\ UNCHANGED <<chunks, conversation_log, followup_content,
                           plannerCalls, plannerReplies>>
       ELSE /\ plannerCalls' = plannerCalls + 1
            /\ \/ \E e \in PlannerErrors :
                    /\ exc' = Some(e)
                    /\ pc' = "EXCEPT"
                    /\ UNCHANGED <<chunks, conversation_log, followup_content,
                                   plannerReplies>>
               \/ \E r \in PlannerReplyTexts :
                    /\ plannerReplies' = Append(plannerReplies, r)
                    /\ followup_content' = strip(r)
                    /\ conversation_log' =
                            Append(conversation_log,
                                   LogEntry("OpenAI", StrMsg(strip(r))))
                    /\ chunks' = Append(chunks, FollowUpChunk(strip(r)))
                    /\ pc' = "CHECK"
                    /\ exc' = exc
    /\ UNCHANGED <<state, current_prompt, message, iter>>
    /\ UNCHANGED <<relayVars, envVars, adapter_exc>>
    /\ UNCHANGED nonOrchVars

\* lines 536-546 with an iteration cap of one EXECUTE step
CheckSentinelCapped ==
    /\ pc = "CHECK"
    /\ IF ~JsonSerializable(conversation_log)
       THEN /\ exc' = Some("Object is not JSON serializable")
            /\ pc' = "EXCEPT"
            /\ UNCHANGED <<chunks, current_prompt>>
       ELSE IF IsFinalResponse(followup_content) \/ iter >= 1
       THEN /\ chunks' = Append(chunks, ClosedChunk)
            /\ pc' = "DONE"
            /\ UNCHANGED <<exc, current_prompt>>
       ELSE /\ current_prompt' = followup_content
            /\ pc' = "EXECUTE"
            /\ UNCHANGED <<exc, chunks>>
    /\ UNCHANGED <<state, conversation_log, message, followup_content,
                   plannerCalls, plannerReplies, iter>>
    /\ UNCHANGED <<relayVars, envVars, adapter_exc>>
    /\ UNCHANGED nonOrchVars

\* lines 536-546: the log is printed and the sentinel is looked for
CheckSentinel ==
    /\ pc = "CHECK"
    /\ IF ~JsonSerializable(conversation_log)
       THEN /\ exc' = Some("Object is not JSON serializable")
            /\ pc' = "EXCEPT"
            /\ UNCHANGED <<chunks, current_prompt>>
       ELSE IF IsFinalResponse(followup_content)
       THEN /\ chunks' = Append(chunks, ClosedChunk)
            /\ pc' = "DONE"
            /\ UNCHANGED <<exc, current_prompt>>
       ELSE /\ current_prompt' = followup_content
            /\ pc' = "EXECUTE"
            /\ UNCHANGED <<exc, chunks>>
    /\ UNCHANGED <<state, conversation_log, message, followup_content,
                   plannerCalls, plannerReplies, iter>>
    /\ UNCHANGED <<relayVars, envVars, adapter_exc>>
    /\ UNCHANGED nonOrchVars

\* lines 548-555: the outer handler
OuterExcept ==
    /\ pc = "EXCEPT"
    /\ conversation_log' =
            Append(conversation_log,
                   LogEntry("System", StrMsg(OuterErrorMessage(exc[1]))))
    /\ IF TimestampRaises \/ ~JsonSerializable(conversation_log')
       THEN \* the handler itself raises: the generator ends with no chunk
            /\ pc' = "CRASHED"
            /\ chunks' = chunks
       ELSE /\ chunks' = Append(chunks, DataChunk(OuterErrorMessage(exc[1])))
            /\ pc' = "FAILED"
    /\ UNCHANGED <<state, current_prompt, message, followup_content, exc,
                   plannerCalls, plannerReplies, iter>>
    /\ UNCHANGED <<relayVars, envVars, adapter_exc>>
    /\ UNCHANGED nonOrchVars

OrchNext ==
    \/ Plan
    \/ Setup
    \/ ExecuteStart
    \/ ExecuteYield
    \/ ExecuteExhausted
    \/ ExecuteRaises
    \/ Decide
    \/ CheckSentinel
    \/ OuterExcept

Spec == OrchInit /\ [][OrchNext]_vars

(***************************************************************************)
(* The HTTP streaming relay: process_input_api and its message_generator.  *)
(***************************************************************************)
\* a request body: malformed, or a JSON object holding user_input
MalformedBody == [valid |-> FALSE, user_input |-> ""]
JsonBody(text) == [valid |-> TRUE, user_input |-> text]

RelayInit ==
    /\ pc = "HTTP_RECV"
    /\ state = EmptyDict
    /\ IdleOrch
    /\ IdleRelay
    /\ IdleSetup
    /\ IdleRender
    /\ IdleSide
    /\ env_API_PROVIDER \in {None, Some("bogus")}
    /\ platform_system = "Linux"
    /\ storage = [f \in StorageFiles |-> None]
    /\ SELECTED_SCREEN_INDEX = 0
    /\ user_input = ""
    /\ req_header \in {None, Some(""), Some("sk-ant-1")}
    /\ req_body \in {MalformedBody, JsonBody("open the browser")}
    /\ body_read = FALSE
    /\ http_status = None

\* lines 416-417: the body is awaited and parsed
ReadBody ==
    /\ pc = "HTTP_RECV"
    /\ body_read' = TRUE
    /\ IF req_body.valid
       THEN /\ user_input' = req_body.user_input
            /\ pc' = "HTTP_AUTH"
            /\ http_status' = http_status
       ELSE \* json.JSONDecodeError leaves the handler: an internal server error
            /\ http_status' = Some(500)
            /\ pc' = "HTTP_DONE"
            /\ user_input' = user_input
    /\ UNCHANGED <<chunks, state, adapter_exc, req_header, req_body>>
    /\ UNCHANGED <<orchVars, relayVars, envVars>>
    /\ UNCHANGED pureVars

\* lines 418-421: the credential check
RejectMissingKey ==
    /\ pc = "HTTP_AUTH"
    /\ ~StrTruthy(req_header)
    /\ http_status' = Some(401)
    /\ pc' = "HTTP_DONE"
    /\ UNCHANGED <<chunks, state, adapter_exc, user_input, req_header, req_body,
                   body_read>>
    /\ UNCHANGED <<orchVars, relayVars, envVars>>
    /\ UNCHANGED pureVars

\* lines 418-438 and 461: the state is built and the stream is returned
BuildState ==
    /\ pc = "HTTP_AUTH"
    /\ StrTruthy(req_header)
    /\ LET r == setup_state(EmptyDict)
           keyed == DictSet(r.st, "api_key", req_header[1])
       IN IF r.raised
          THEN /\ state' = r.st
               /\ http_status' = Some(500)
               /\ pc' = "HTTP_DONE"
          ELSE /\ state' = DictSet(keyed, "messages",
                                   Append(keyed["messages"], UserMessage(user_input)))
               /\ http_status' = Some(200)
               /\ pc' = "HTTP_STREAM"
    /\ UNCHANGED <<chunks, adapter_exc, user_input, req_header, req_body, body_read>>
    /\ UNCHANGED <<orchVars, relayVars, envVars>>
    /\ UNCHANGED pureVars

\* lines 442-454 and 225-228: message_generator starts the relay
StreamStart ==
    /\ pc = "HTTP_STREAM"
    /\ AccumulateStart
    /\ pc' = "HTTP_RELAY"
    /\ UNCHANGED <<chunks, state, adapter_exc, user_input>>
    /\ UNCHANGED <<orchVars, httpVars, envVars>>
    /\ UNCHANGED pureVars

\* lines 229-234 and 456: the adapter yields one message
StreamYield ==
    /\ pc = "HTTP_RELAY"
    /\ Len(yielded) < RelayMaxYield
    /\ \E m \in AdapterMessages :
        /\ AccumulateNext(m)
        /\ IF AlreadyAccumulated(m, accumulated_messages)
           THEN chunks' = chunks
           ELSE chunks' = Append(chunks, DataChunk(Format(m)))
    /\ UNCHANGED <<pc, state, adapter_exc, user_input>>
    /\ UNCHANGED <<orchVars, httpVars, envVars>>
    /\ UNCHANGED pureVars

\* the adapter's sequence is exhausted: the generator returns
StreamExhausted ==
    /\ pc = "HTTP_RELAY"
    /\ pc' = "HTTP_CLOSED"
    /\ UNCHANGED <<chunks, state, adapter_exc, user_input>>
    /\ UNCHANGED <<orchVars, relayVars, httpVars, envVars>>
    /\ UNCHANGED pureVars

\* lines 457-458 with the exception swallowed: no chunk is emitted
StreamRaisesSilent ==
    /\ pc = "HTTP_RELAY"
    /\ \E e \in AdapterErrors : adapter_exc' = Some(e)
    /\ pc' = "HTTP_CLOSED"
    /\ UNCHANGED <<chunks, state, user_input>>
    /\ UNCHANGED <<orchVars, relayVars, httpVars, envVars>>
    /\ UNCHANGED pureVars

\* lines 457-458: the adapter raises
StreamRaises ==
    /\ pc = "HTTP_RELAY"
    /\ \E e \in AdapterErrors :
        /\ adapter_exc' = Some(e)
        /\ chunks' = Append(chunks, DataChunk(OuterErrorMessage(e)))
    /\ pc' = "HTTP_CLOSED"
    /\ UNCHANGED <<state, user_input>>
    /\ UNCHANGED <<orchVars, relayVars, httpVars, envVars>>
    /\ UNCHANGED pureVars

RelayNext ==
    \/ ReadBody
    \/ RejectMissingKey
    \/ BuildState
    \/ StreamStart
    \/ StreamYield
    \/ StreamExhausted
    \/ StreamRaises

SpecRelay == RelayInit /\ [][RelayNext]_vars

(***************************************************************************)
(* Repeated initialisation of one Session State mapping (setup_state is    *)
(* called by main, process_input and both HTTP handlers), while the        *)
(* environment it reads changes between the calls.                         *)
(***************************************************************************)
SetupKeys ==
    {"messages", "api_key", "provider", "provider_radio", "model",
     "auth_validated", "responses", "tools", "only_n_most_recent_images",
     "custom_system_prompt", "hide_images"}

\* a value a caller stored under key k before the call; p is its provider
PresetValue(k, p) ==
    CASE k = "messages" -> <<UserMessage("hi")>>
      [] k = "api_key" -> "sk-ant-1"
      [] k = "provider" -> p
      [] k = "provider_radio" -> "vertex"
      [] k = "model" -> "claude-3-opus-20240229"
      [] k = "auth_validated" -> TRUE
      [] k = "responses" -> ("2024-11-05T10:00:00" :> "response 1")
      [] k = "tools" -> ("toolu_01" :> "screenshot taken")
      [] k = "only_n_most_recent_images" -> 10
      [] k = "custom_system_prompt" -> "be brief"
      [] k = "hide_images" -> TRUE

PresetProviders == {"bedrock", "bogus"}
EnvProviders == {None, Some("vertex"), Some("bogus")}
StoredPrompts == {None, Some(" be careful \n")}

SetupInit ==
    /\ pc = "SETUP_IDLE"
    /\ \E K \in SUBSET SetupKeys, p \in PresetProviders :
            state = [k \in K |-> PresetValue(k, p)]
    /\ IdleOrch
    /\ IdleRelay
    /\ IdleHttp
    /\ IdleSetup
    /\ IdleRender
    /\ IdleSide
    /\ env_API_PROVIDER \in EnvProviders
    /\ platform_system \in {"Linux", "Darwin"}
    /\ storage \in [StorageFiles -> StoredPrompts]
    /\ SELECTED_SCREEN_INDEX = 0
    /\ user_input = ""

\* lines 63-92: one call of setup_state on the mapping
SetupCall ==
    /\ pc = "SETUP_IDLE"
    /\ setup_calls < MaxSetupCalls
    /\ LET r == setup_state(state)
       IN /\ state' = r.st
          /\ setup_initial' = Some([st |-> state, raised |-> r.raised])
          /\ IF r.raised
             THEN UNCHANGED <<setup_calls, setup_snapshot>>
             ELSE /\ setup_calls' = setup_calls + 1
                  /\ setup_snapshot' =
                        IF setup_snapshot = None THEN Some(r.st) ELSE setup_snapshot
    /\ UNCHANGED <<pc, chunks, adapter_exc, user_input>>
    /\ UNCHANGED <<orchVars, relayVars, httpVars, renderVars, sideVars>>
    /\ UNCHANGED <<platform_system, env_API_PROVIDER, storage, SELECTED_SCREEN_INDEX>>

\* between two calls the environment variable and the stored prompt change
ChangeEnvironment ==
    /\ pc = "SETUP_IDLE"
    /\ env_API_PROVIDER' \in EnvProviders
    /\ storage' \in [StorageFiles -> StoredPrompts]
    /\ UNCHANGED <<pc, state, chunks, adapter_exc, user_input>>
    /\ UNCHANGED <<orchVars, relayVars, httpVars, setupVars, renderVars, sideVars>>
    /\ UNCHANGED <<platform_system, SELECTED_SCREEN_INDEX>>

SetupNext ==
    \/ SetupCall
    \/ ChangeEnvironment

SpecSetup == SetupInit /\ [][SetupNext]_vars

(***************************************************************************)
(* One call of _render_message, as the output callback makes it.           *)
(***************************************************************************)
ByteSamples == {0, 137, 255}
RawImages == UNION {[1..n -> ByteSamples] : n \in 1..MaxImageLen}
OutputTexts == {None, Some(""), Some("done")}
ErrorTexts == {None, Some(""), Some("denied")}

\* the image fields a result can carry, each with the bytes it encodes
ImageFields ==
    {<<None, <<>> >>, <<Some(""), <<>> >>}
        \cup {<<Some(b64encode(raw)), raw>> : raw \in RawImages}

RenderInputs ==
    {<<StrMessage(t), <<>> >> : t \in {"", "hello"}}
        \cup {<<BetaTextBlock("hi"), <<>> >>,
              <<BetaToolUseBlock("computer", "{'action': 'screenshot'}"), <<>> >>}
        \cup {<<ToolResult(o, e, img[1]), img[2]>> :
                    o \in OutputTexts, e \in ErrorTexts, img \in ImageFields}
        \cup {<<CLIResult(o, None, None), <<>> >> : o \in OutputTexts}
        \cup {<<ImageOnlyObject(img[1]), img[2]>> : img \in ImageFields}

RenderInit ==
    /\ pc = "RENDER_CALL"
    /\ env_API_PROVIDER = None
    /\ platform_system = "Linux"
    /\ storage = [f \in StorageFiles |-> None]
    /\ SELECTED_SCREEN_INDEX = 0
    /\ user_input = ""
    /\ \E h \in BOOLEAN :
            state = DictSet(setup_state(EmptyDict).st, "hide_images", h)
    /\ IdleOrch
    /\ IdleRelay
    /\ IdleHttp
    /\ IdleSetup
    /\ IdleSide
    /\ \E in \in RenderInputs :
            /\ render_message = in[1]
            /\ raw_image = in[2]
    /\ render_result = RenderUnset

\* lines 160-186
Render ==
    /\ pc = "RENDER_CALL"
    /\ render_result' = _render_message(SenderBOT, render_message, state)
    /\ pc' = "RENDER_DONE"
    /\ UNCHANGED <<state, chunks, adapter_exc, user_input, render_message, raw_image>>
    /\ UNCHANGED <<orchVars, relayVars, httpVars, setupVars, envVars, sideVars>>

RenderNext == Render

SpecRender == RenderInit /\ [][RenderNext]_vars

(***************************************************************************)
(* Properties of the Secondary Orchestrator.                               *)
(***************************************************************************)
Last(seq) == seq[Len(seq)]

OrchTerminal == {"DONE", "FAILED", "CRASHED"}

\* r contains "FINAL RESPONSE" when letter case is ignored
ContainsSentinelCI(r) ==
    \E i \in 0..(Len(r) - Len(SENTINEL)) :
        \A j \in 1..Len(SENTINEL) :
            UpperChar(CharAt(r, i + j)) = CharAt(SENTINEL, j)

\* plannerReplies[1] is the PLAN reply, the later ones are DECIDE replies
SomeReplyHasSentinel ==
    \E i \in 1..Len(plannerReplies) : ContainsSentinelCI(plannerReplies[i])
DecideReplyHasSentinel ==
    \E i \in 2..Len(plannerReplies) : ContainsSentinelCI(plannerReplies[i])

IsErrorChunk(c) == StartsWith(c, "data: Error")

\* C2: once the adapter has raised during EXECUTE the run is FAILED, the
\* one error chunk is the last chunk, and nothing happens afterwards: no
\* chunk, no planner call, no adapter call.
C2_AdapterFailureEndsRun ==
    /\ [](adapter_exc # None =>
            /\ pc = "FAILED"
            /\ chunks # <<>>
            /\ Last(chunks) =
                    "data: Error from Anthropic: " \o adapter_exc[1] \o "\n\n"
            /\ Cardinality({i \in 1..Len(chunks) : IsErrorChunk(chunks[i])}) = 1
            /\ plannerCalls = iter
            /\ adapterCalls = iter)
    /\ [][adapter_exc # None =>
            UNCHANGED <<pc, chunks, plannerCalls, adapterCalls, iter>>]_vars

\* C2 witness: the adapter raised in the second EXECUTE step, after relaying
C2_Witness ==
    /\ adapter_exc # None
    /\ iter = 2
    /\ relayed # <<>>

IsFinalChunk(c) == c = "data: Conversation closed by OpenAI.\n\n" \/ IsErrorChunk(c)

\* C3 as stated: every finished run is DONE or FAILED and its last chunk is
\* a final chunk (the closing chunk or an error chunk).
C3_EveryEndEmitsFinalChunk ==
    pc \in OrchTerminal =>
        /\ pc \in {"DONE", "FAILED"}
        /\ chunks # <<>>
        /\ IsFinalChunk(Last(chunks))

\* the text of a chunk after "data: " starts with one of the prefixes
HasPrefixIn(c, prefixes) ==
    /\ StartsWith(c, "data: ")
    /\ \E p \in prefixes : StartsWith(SubSeq(c, Len("data: ") + 1, Len(c)), p)

SpecPrefixes ==
    {"OpenAI Processed Input:", "Anthropic Response:", "OpenAI Follow-Up:", "Error:"}

\* C7 as stated: every chunk starts with one of the four prefixes.
C7_FourPrefixes ==
    \A i \in 1..Len(chunks) : HasPrefixIn(chunks[i], SpecPrefixes)

\* C7 amended: every chunk starts with one of the four prefixes, with
\* "Error from Anthropic:" (adapter failure) or with
\* "Conversation closed by OpenAI." (sentinel close).
C7_SixPrefixes ==
    \A i \in 1..Len(chunks) :
        HasPrefixIn(chunks[i],
                    SpecPrefixes \cup {"Error from Anthropic:",
                                       "Conversation closed by OpenAI."})

\* C7 witness: a closed run that relayed two agent messages
C7_Witness ==
    /\ pc = "DONE"
    /\ Len(relayed) = 2
    /\ Last(chunks) = "data: Conversation closed by OpenAI.\n\n"

(***************************************************************************)
(* Properties of the relay and of /api/process-input.                      *)
(***************************************************************************)
\* the positions of yielded that hold a value for the first time
FirstOccurrenceIndexes ==
    {i \in 1..Len(yielded) : \A j \in 1..(i - 1) : yielded[j] # yielded[i]}

\* the k-th smallest of a set of indexes
KthIndex(idx, k) == CHOOSE i \in idx : Cardinality({j \in idx : j <= i}) = k

\* C4: at every moment of a relay call the relayed sequence is the first
\* occurrence of each distinct value yielded so far, in the original order.
C4_RelayIsFirstOccurrences ==
    /\ Len(relayed) = Cardinality(FirstOccurrenceIndexes)
    /\ \A k \in 1..Len(relayed) :
            relayed[k] = yielded[KthIndex(FirstOccurrenceIndexes, k)]
    /\ \A k, l \in 1..Len(relayed) : relayed[k] = relayed[l] => k = l
    /\ {relayed[k] : k \in 1..Len(relayed)} = {yielded[i] : i \in 1..Len(yielded)}

\* C4 witness: a value came back after another one and was not relayed again
C4_Witness ==
    /\ pc = "HTTP_CLOSED"
    /\ Len(yielded) = 3
    /\ yielded[1] = yielded[3]
    /\ yielded[1] # yielded[2]
    /\ Len(relayed) = 2

\* C5: the stream holds one "data: <message>" chunk per relayed message, in
\* order, followed by exactly one "data: Error: <text>" chunk when and only
\* when the adapter raised; the adapter is invoked at most once and a raise
\* closes the stream.
C5_StreamIsRelayThenError ==
    pc \in {"HTTP_RELAY", "HTTP_CLOSED"} =>
        /\ chunks =
            [i \in 1..Len(relayed) |-> "data: " \o relayed[i].text \o "\n\n"]
            \o (IF adapter_exc = None THEN <<>>
                ELSE <<"data: Error: " \o adapter_exc[1] \o "\n\n">>)
        /\ adapterCalls = 1
        /\ adapter_exc # None => pc = "HTTP_CLOSED"

\* C5 witness: the adapter raised after two messages had been relayed
C5_Witness ==
    /\ pc = "HTTP_CLOSED"
    /\ adapter_exc # None
    /\ Len(relayed) = 2
    /\ Len(chunks) = 3

\* C6 as stated: a request without a credential is answered 401 and nothing
\* of it is processed: the body is not read, no state is built, no message
\* is appended, the adapter is not invoked.
C6_MissingKeyIs401Unprocessed ==
    ~StrTruthy(req_header) =>
        /\ ~body_read
        /\ pc = "HTTP_DONE" => http_status = Some(401)
        /\ state = EmptyDict
        /\ adapterCalls = 0

(***************************************************************************)
(* Properties of setup_state.                                              *)
(***************************************************************************)
\* C8: once a call of setup_state has returned on a mapping, a further call
\* changes no key and no value of it, whatever the environment has become.
C8_SetupStateIdempotent ==
    setup_snapshot # None => state = setup_snapshot[1]

\* C8 witness: a second call returned on a partly populated mapping after
\* the environment variable and the stored prompt had changed
C8_Witness ==
    /\ setup_calls = 2
    /\ DictHas(state, "api_key") /\ state["api_key"] = "sk-ant-1"
    /\ state["provider"] = "anthropic"
    /\ env_API_PROVIDER = Some("vertex")
    /\ StartsWith(state["custom_system_prompt"], "be careful")
    /\ storage["system_prompt"] = None

(***************************************************************************)
(* Properties of _render_message.                                          *)
(***************************************************************************)
RenderedToolResult ==
    /\ pc = "RENDER_DONE"
    /\ render_message.cls = "ToolResult"
    /\ render_message.attrs = ToolResultAttrs

\* C9: for a ToolResult, a non-empty output is returned as it is, whatever
\* the error, the image and hide_images are; with no output, a non-empty
\* error is returned as "Error: " followed by it, whatever the image and
\* hide_images are.
C9_OutputThenError ==
    RenderedToolResult =>
        /\ StrTruthy(render_message.output) =>
                render_result = RenderStr(render_message.output[1])
        /\ (~StrTruthy(render_message.output) /\ StrTruthy(render_message.error)) =>
                render_result = RenderStr("Error: " \o render_message.error[1])

\* C9 witness: output, error and image all set, images hidden
C9_Witness ==
    /\ RenderedToolResult
    /\ StrTruthy(render_message.output)
    /\ StrTruthy(render_message.error)
    /\ StrTruthy(render_message.base64_image)
    /\ state["hide_images"]
    /\ render_result.kind = "str"

ImageOnly(m) ==
    ~StrTruthy(m.output) /\ ~StrTruthy(m.error) /\ StrTruthy(m.base64_image)

\* C10: a ToolResult carrying only an image renders to the bytes the image
\* encodes when hide_images is false and to nothing when it is true; no
\* call returns image bytes while hide_images is true.
C10_ImageOnlyFollowsFlag ==
    /\ (RenderedToolResult /\ ImageOnly(render_message)) =>
            render_result =
                IF state["hide_images"] THEN RenderNone ELSE RenderBytes(raw_image)
    /\ (pc = "RENDER_DONE" /\ state["hide_images"]) => render_result.kind # "bytes"

\* C10 witness: a three-byte image was decoded and returned
C10_Witness ==
    /\ RenderedToolResult
    /\ ImageOnly(render_message)
    /\ ~state["hide_images"]
    /\ Len(raw_image) = 3
    /\ render_result.kind = "bytes"

(***************************************************************************)
(* Config storage: save_to_storage and load_from_storage when the I/O      *)
(* calls of lines 131-146 can fail.                                        *)
(***************************************************************************)
StorageKeys == {"api_key", "system_prompt"}
StoredTexts == {"sk-old", " \n"}
SavedTexts == {"sk-2", ""}

\* the I/O call of save_to_storage that raises OSError ("none": no call does)
SaveFaults == {"none", "mkdir", "open", "write", "chmod"}
\* lines 142-146: the calls inside the try block
SaveTryBlock == {"mkdir", "open", "write", "chmod"}

\* lines 143-146 with an open that empties the file before it fails
SavedFileTruncatesOnOpen(before, data, fault, written) ==
    CASE fault = "mkdir" -> before
      [] fault = "open" -> Some("")
      [] fault = "write" -> Some(SubSeq(data, 1, written))
      [] fault = "chmod" -> Some(data)
      [] fault = "none" -> Some(data)

\* lines 143-146: the file's text after the call.  mkdir raising leaves
\* the file as it was, as does write_text when it cannot open the file;
\* write_text raising after the open leaves the `written` first characters;
\* chmod raises after the text has been written
SavedFile(before, data, fault, written) ==
    CASE fault = "mkdir" -> before
      [] fault = "open" -> before
      [] fault = "write" -> Some(SubSeq(data, 1, written))
      [] fault = "chmod" -> Some(data)
      [] fault = "none" -> Some(data)

\* lines 141-148: `except Exception` catches what the try block raises
SaveRaises(fault) == fault # "none" /\ fault \notin SaveTryBlock

\* lines 128-136 with the read of lines 131-132 able to raise: the
\* exception is caught at line 134 and None is returned at line 136
LoadOutcome(filename, read_fault) ==
    IF read_fault THEN None ELSE load_from_storage(filename)

StorageInit ==
    /\ pc = "STORAGE"
    /\ state = EmptyDict
    /\ IdleOrch
    /\ IdleRelay
    /\ IdleHttp
    /\ IdleSetup
    /\ IdleRender
    /\ IdleCallback
    /\ IdleConc
    /\ ui_output = None
    /\ env_API_PROVIDER = None
    /\ platform_system = "Linux"
    /\ SELECTED_SCREEN_INDEX = 0
    /\ user_input = ""
    /\ dir_exists \in BOOLEAN
    /\ storage \in [StorageKeys -> {None} \cup {Some(t) : t \in StoredTexts}]
    /\ ~dir_exists => storage = [f \in StorageKeys |-> None]
    /\ last_save = None
    /\ last_load = None

\* lines 139-148: one call of save_to_storage
Save ==
    /\ pc = "STORAGE"
    /\ \E filename \in StorageKeys, data \in SavedTexts, fault \in SaveFaults,
          written \in 0..1 :
            \* mkdir(parents=True, exist_ok=True) fails only on a missing directory
            /\ fault = "mkdir" => ~dir_exists
            /\ written < Len(data) \/ fault # "write"
            /\ fault = "write" \/ written = 0
            /\ storage' = [storage EXCEPT ![filename] =
                              SavedFile(storage[filename], data, fault, written)]
            /\ dir_exists' = (dir_exists \/ fault # "mkdir")
            /\ last_save' = Some([filename |-> filename, data |-> data,
                                  fault |-> fault, before |-> storage[filename],
                                  raised |-> SaveRaises(fault)])
            /\ last_load' = None
    /\ UNCHANGED <<pc, state, chunks, adapter_exc, user_input>>
    /\ UNCHANGED <<orchVars, relayVars, httpVars, setupVars, renderVars>>
    /\ UNCHANGED <<callbackVars, ui_output, concVars>>
    /\ UNCHANGED <<env_API_PROVIDER, platform_system, SELECTED_SCREEN_INDEX>>

\* lines 126-136: one call of load_from_storage
Load ==
    /\ pc = "STORAGE"
    /\ \E filename \in StorageKeys, read_fault \in BOOLEAN :
            last_load' = Some([filename |-> filename, read_fault |-> read_fault,
                               result |-> LoadOutcome(filename, read_fault)])
    /\ UNCHANGED <<pc, state, chunks, adapter_exc, user_input, dir_exists, last_save>>
    /\ UNCHANGED <<orchVars, relayVars, httpVars, setupVars, renderVars>>
    /\ UNCHANGED <<callbackVars, ui_output, concVars>>
    /\ UNCHANGED envVars

StorageNext ==
    \/ Save
    \/ Load

SpecStorage == StorageInit /\ [][StorageNext]_vars

\* a save whose I/O failed, and the load of the same key made after it
FailedSave == last_save # None /\ last_save[1].fault # "none"
LoadedAfterSave ==
    /\ last_save # None
    /\ last_load # None
    /\ last_load[1].filename = last_save[1].filename

\* what a read that succeeds returns for a file's text (lines 131-133)
ReadBack(text) ==
    IF text # None /\ strip(text[1]) # "" THEN Some(strip(text[1])) ELSE None

\* C11 as stated: a save whose I/O fails returns without raising and
\* leaves the stored value unchanged, and the load of that key made after it
\* returns None, whether or not a value was stored before the save.
C11_FailedSaveThenLoadAbsent ==
    FailedSave =>
        /\ ~last_save[1].raised
        /\ storage[last_save[1].filename] = last_save[1].before
        /\ LoadedAfterSave => last_load[1].result = None

\* C11 amended: a save whose I/O fails returns without raising; when the
\* directory cannot be created or the file cannot be opened the stored value
\* is unchanged, and a load of that key that reads successfully returns what
\* was stored before the failed save: None if nothing or only whitespace was
\* stored, the earlier value stripped otherwise.
C11_FailedSaveKeepsEarlierValue ==
    FailedSave =>
        /\ ~last_save[1].raised
        /\ last_save[1].fault \in {"mkdir", "open"} =>
              /\ storage[last_save[1].filename] = last_save[1].before
              /\ (LoadedAfterSave /\ ~last_load[1].read_fault) =>
                    last_load[1].result = ReadBack(last_save[1].before)

C11_Witness ==
    /\ FailedSave
    /\ last_save[1].fault = "open"
    /\ last_save[1].before = Some("sk-old")
    /\ LoadedAfterSave
    /\ last_load[1].result = Some("sk-old")

InIteration == pc \in {"RELAY", "DECIDE", "CHECK"}

\* the sub-task prompt of the k-th EXECUTE step: the PLAN reply for the
\* first (line 485), the DECIDE reply before it for the others (line 546)
PromptOf(k) == strip(plannerReplies[k])

\* C13 as stated: the history handed to the adapter in an EXECUTE step holds
\* the current sub-task prompt as its only user prompt, nothing of earlier
\* EXECUTE steps.
C13_HistoryIsCurrentPromptOnly ==
    InIteration => state["messages"] = <<UserMessage(current_prompt)>>

\* C13 amended: the Session State is initialized once per request, before
\* the loop; the k-th EXECUTE step appends its prompt to that same state, so
\* the history handed to the adapter holds the k sub-task prompts of the
\* request so far, in order, the current one last.
C13_HistoryAccumulatesPrompts ==
    InIteration =>
        /\ state["messages"] = [k \in 1..iter |-> UserMessage(PromptOf(k))]
        /\ pc # "CHECK" => Last(state["messages"]) = UserMessage(current_prompt)

C13_Witness ==
    /\ pc = "RELAY"
    /\ iter = 2
    /\ Len(state["messages"]) = 2
    /\ state["messages"][2] = UserMessage(current_prompt)
    /\ state["messages"][1] # state["messages"][2]

\* line 526 was reached with `message` bound by no iteration
DecideReadUnboundMessage ==
    exc = Some("cannot access local variable 'message' where it is not associated with a value")

\* C14: the content DECIDE sends to the planner (line 526, `message`) is the
\* last message relayed in the EXECUTE step of the same iteration; when that
\* step relayed nothing, DECIDE is still well defined and sends no message
\* of an earlier iteration.
C14_DecideSendsLastRelayOfIteration ==
    /\ ~DecideReadUnboundMessage
    /\ pc = "CHECK" =>
          IF relayed # <<>> THEN message = Some(Last(relayed)) ELSE message = None

(***************************************************************************)
(* Further properties of setup_state.                                      *)
(***************************************************************************)
\* the keys the rest of the program reads from the Session State
RequiredKeys ==
    {"messages", "api_key", "provider", "model", "responses", "tools",
     "only_n_most_recent_images", "custom_system_prompt", "hide_images"}

\* C17: setup_state never overwrites a key that is present; after it returns
\* every required key exists; a model that was missing is the table default
\* of the provider the state holds.
C17_SetupStateFillsOnlyMissingKeys ==
    setup_initial # None =>
        LET before == setup_initial[1].st
        IN /\ \A k \in DOMAIN before : DictHas(state, k) /\ state[k] = before[k]
           /\ ~setup_initial[1].raised =>
                /\ RequiredKeys \subseteq DOMAIN state
                /\ ~DictHas(before, "model") =>
                      state["model"] = PROVIDER_TO_DEFAULT_MODEL_NAME[state["provider"]]

C17_Witness ==
    /\ setup_initial # None
    /\ ~setup_initial[1].raised
    /\ DOMAIN setup_initial[1].st = {"provider", "api_key"}
    /\ state["provider"] = "bedrock"
    /\ state["api_key"] = "sk-ant-1"
    /\ state["model"] = PROVIDER_TO_DEFAULT_MODEL_NAME["bedrock"]
    /\ DefaultProvider # "bedrock"

(***************************************************************************)
(* The response capture callback: _api_response_callback on the responses  *)
(* mapping of one Session State.                                           *)
(***************************************************************************)
MaxCallbacks == 3
MaxClock == 2

\* the responses the adapter hands over
ResponseValues == {"response A", "response B"}

Digit(d) == SubSeq("0123456789", d + 1, d + 1)

\* datetime.isoformat() of the instant t microseconds after
\* 2024-11-05 10:00:00: the fraction is left out when it is zero
isoformat(t) ==
    IF t % 1000000 = 0
    THEN "2024-11-05T10:00:00"
    ELSE "2024-11-05T10:00:00."
            \o Digit((t \div 100000) % 10) \o Digit((t \div 10000) % 10)
            \o Digit((t \div 1000) % 10) \o Digit((t \div 100) % 10)
            \o Digit((t \div 10) % 10) \o Digit(t % 10)

\* lines 151-153: the mapping after the call
_api_response_callback(response, response_state) ==
    LET response_id == isoformat(now)
    IN DictSet(response_state, response_id, response)

CallbackInit ==
    /\ pc = "CALLBACK"
    /\ env_API_PROVIDER = None
    /\ platform_system = "Linux"
    /\ storage = [f \in StorageFiles |-> None]
    /\ SELECTED_SCREEN_INDEX = 0
    /\ user_input = ""
    /\ state = setup_state(EmptyDict).st
    /\ IdleOrch
    /\ IdleRelay
    /\ IdleHttp
    /\ IdleSetup
    /\ IdleRender
    /\ IdleStorage
    /\ IdleConc
    /\ ui_output = None
    /\ now = 0
    /\ captured = <<>>

\* lines 151-153: the adapter reports one raw API response
ApiResponse ==
    /\ pc = "CALLBACK"
    /\ Len(captured) < MaxCallbacks
    /\ \E response \in ResponseValues :
        /\ state' = DictSet(state, "responses",
                            _api_response_callback(response, state["responses"]))
        /\ captured' = Append(captured, [id |-> isoformat(now), response |-> response])
    /\ UNCHANGED <<pc, chunks, adapter_exc, user_input, now, ui_output>>
    /\ UNCHANGED <<orchVars, relayVars, httpVars, setupVars, renderVars>>
    /\ UNCHANGED <<storageVars, concVars, envVars>>

\* the wall clock moves on by one microsecond
Tick ==
    /\ pc = "CALLBACK"
    /\ now < MaxClock
    /\ now' = now + 1
    /\ UNCHANGED <<pc, state, chunks, adapter_exc, user_input, captured, ui_output>>
    /\ UNCHANGED <<orchVars, relayVars, httpVars, setupVars, renderVars>>
    /\ UNCHANGED <<storageVars, concVars, envVars>>

CallbackNext ==
    \/ ApiResponse
    \/ Tick

SpecCallback == CallbackInit /\ [][CallbackNext]_vars

\* C18: the responses mapping is append-only: after n invocations of
\* _api_response_callback it holds n entries, each captured response under
\* its own identifier, also when two are captured at the same timestamp.
C18_ResponsesHoldEveryCapture ==
    /\ Cardinality(DOMAIN state["responses"]) = Len(captured)
    /\ \A i \in 1..Len(captured) :
            /\ DictHas(state["responses"], captured[i].id)
            /\ state["responses"][captured[i].id] = captured[i].response

(***************************************************************************)
(* The UI path: process_input and the generator yield_message.             *)
(***************************************************************************)
UiMaxYield == 2

\* the Session State the chat UI hands to process_input; None (lines
\* 192-193) is the empty mapping
UiApiKeys == {None, Some(""), Some("sk-ant-1")}
UiProviders == {None, Some("bedrock"), Some("bogus")}
UiState(key, provider) ==
    LET s1 == IF key = None THEN EmptyDict ELSE DictSet(EmptyDict, "api_key", key[1])
    IN IF provider = None THEN s1 ELSE DictSet(s1, "provider", provider[1])

UiOutput(kind, text) == Some([kind |-> kind, text |-> text])

UiInit ==
    /\ pc = "UI_CALL"
    /\ \E key \in UiApiKeys, provider \in UiProviders : state = UiState(key, provider)
    /\ user_input \in {"hi", "open the browser"}
    /\ env_API_PROVIDER \in {None, Some("bogus")}
    /\ platform_system = "Linux"
    /\ storage = [f \in StorageFiles |-> None]
    /\ SELECTED_SCREEN_INDEX = 0
    /\ IdleOrch
    /\ IdleRelay
    /\ IdleHttp
    /\ IdleSetup
    /\ IdleRender
    /\ IdleSide

\* lines 191-205: process_input up to its yield.  yield_message is a
\* generator function, so the call of line 205 runs none of its body: what
\* is yielded to the chat UI is a generator object
ProcessInput ==
    /\ pc = "UI_CALL"
    /\ LET r == setup_state(state)
       IN /\ setup_initial' = Some([st |-> state, raised |-> r.raised])
          /\ IF r.raised
             THEN /\ state' = r.st
                  /\ ui_output' = UiOutput("KeyError", "'" \o r.st["provider"] \o "'")
                  /\ pc' = "UI_RAISED"
             ELSE /\ state' = DictSet(r.st, "messages",
                                      Append(r.st["messages"], UserMessage(user_input)))
                  /\ ui_output' = UiOutput("generator", "")
                  /\ pc' = "UI_YIELDED"
    /\ UNCHANGED <<chunks, adapter_exc, user_input, setup_calls, setup_snapshot>>
    /\ UNCHANGED <<orchVars, relayVars, httpVars, renderVars, envVars>>
    /\ UNCHANGED <<storageVars, callbackVars, concVars>>

\* lines 237-254: the consumer of the yielded generator object asks for its
\* first item: the body of yield_message starts
DriveGenerator ==
    /\ pc = "UI_YIELDED"
    /\ IF state["api_key"] = ""
       THEN /\ ui_output' = UiOutput("ValueError",
                    "API key is missing. Please set it in the environment or storage.")
            /\ pc' = "UI_RAISED"
            /\ UNCHANGED relayVars
       ELSE /\ AccumulateStart
            /\ pc' = "UI_RELAY"
            /\ UNCHANGED ui_output
    /\ UNCHANGED <<state, chunks, adapter_exc, user_input>>
    /\ UNCHANGED <<orchVars, httpVars, setupVars, renderVars, envVars>>
    /\ UNCHANGED <<storageVars, callbackVars, concVars>>

\* lines 229-234 and 253-254: the adapter yields one message
UiYield ==
    /\ pc = "UI_RELAY"
    /\ Len(yielded) < UiMaxYield
    /\ \E m \in AdapterMessages : AccumulateNext(m)
    /\ UNCHANGED <<pc, state, chunks, adapter_exc, user_input, ui_output>>
    /\ UNCHANGED <<orchVars, httpVars, setupVars, renderVars, envVars>>
    /\ UNCHANGED <<storageVars, callbackVars, concVars>>

\* the adapter's sequence is exhausted: yield_message returns
UiExhausted ==
    /\ pc = "UI_RELAY"
    /\ pc' = "UI_DONE"
    /\ UNCHANGED <<state, chunks, adapter_exc, user_input, ui_output>>
    /\ UNCHANGED <<orchVars, relayVars, httpVars, setupVars, renderVars, envVars>>
    /\ UNCHANGED <<storageVars, callbackVars, concVars>>

\* the adapter raises: nothing in yield_message catches it
UiRaises ==
    /\ pc = "UI_RELAY"
    /\ \E e \in AdapterErrors :
        /\ adapter_exc' = Some(e)
        /\ ui_output' = UiOutput("Exception", e)
    /\ pc' = "UI_RAISED"
    /\ UNCHANGED <<state, chunks, user_input>>
    /\ UNCHANGED <<orchVars, relayVars, httpVars, setupVars, renderVars, envVars>>
    /\ UNCHANGED <<storageVars, callbackVars, concVars>>

UiNext ==
    \/ ProcessInput
    \/ DriveGenerator
    \/ UiYield
    \/ UiExhausted
    \/ UiRaises

SpecUI == UiInit /\ [][UiNext]_vars

\* process_input was handed a state whose credential is missing or empty
CredentialMissing ==
    /\ setup_initial # None
    /\ \/ ~DictHas(setup_initial[1].st, "api_key")
       \/ setup_initial[1].st["api_key"] = ""

\* C19: on the UI path a missing or empty credential is never an exception:
\* what the chat UI gets is a message string, and the adapter is not invoked.
C19_MissingCredentialIsMessageString ==
    (CredentialMissing /\ ui_output # None) =>
        /\ ui_output[1].kind = "str"
        /\ adapterCalls = 0

(***************************************************************************)
(* Concurrent HTTP requests.  The server runs each request's handler and   *)
(* generator on its own; what the requests of one process can share are    *)
(* the objects of the heap and the module's globals.  An object is named   *)
(* by its position in heap; every {} and [] the code evaluates makes a new *)
(* object.                                                                  *)
(***************************************************************************)
NumRequests == 2
MaxExec == 2
MaxToolOutputs == 1

Requests == 1..NumRequests

\* lines 290-293: what get_screen_details() returned at import
SCREEN_NAMES == <<"Screen 0", "Screen 1">>
primary_index == 0

\* line 336: SCREEN_NAMES.index(selected_screen_name)
update_selected_screen(selected_screen_name) ==
    CHOOSE i \in 1..Len(SCREEN_NAMES) :
        /\ SCREEN_NAMES[i] = selected_screen_name
        /\ \A j \in 1..(i - 1) : SCREEN_NAMES[j] # selected_screen_name

\* the events of a UI in which the screen selector of line 386 is served
ServedEventsOfBlocks == {"submit", "select"}

\* lines 573-593: the UI the program launches is the gr.Interface built in
\* run_gradio, whose only event is the submit that calls process_input; the
\* gr.Blocks of line 257, which holds the screen selector wired to
\* update_selected_screen (line 386), is never launched
ServedEvents == {"submit"}

\* a Session State mapping and the mutable objects it refers to
StateObject(messages, responses, tools, api_key) ==
    [messages |-> messages, responses |-> responses, tools |-> tools,
     api_key |-> api_key, items |-> <<>>]
\* a list or a mapping and what has been put into it
ContentObject(items) ==
    [messages |-> 0, responses |-> 0, tools |-> 0, api_key |-> "", items |-> items]
HeapAppend(h, ref, item) == [h EXCEPT ![ref].items = Append(@, item)]

\* the credential of request r: the header's on /api/process-input (line
\* 418), the constant of line 489 on the orchestrator endpoint
RequestKey(r) ==
    IF reqs[r].endpoint = "relay" THEN "sk-ant-" \o Digit(r) ELSE ORCH_API_KEY

\* what the steps of the requests never touch
concRest == <<pc, state, chunks, adapter_exc, user_input, orchVars, relayVars,
              httpVars, setupVars, renderVars, storageVars, callbackVars,
              env_API_PROVIDER, platform_system, storage>>

ConcInit ==
    /\ pc = "SERVING"
    /\ state = EmptyDict
    /\ user_input = ""
    /\ env_API_PROVIDER = None
    /\ platform_system = "Linux"
    /\ storage = [f \in StorageFiles |-> None]
    /\ IdleOrch
    /\ IdleRelay
    /\ IdleHttp
    /\ IdleSetup
    /\ IdleRender
    /\ IdleStorage
    /\ IdleCallback
    /\ ui_output = None
    /\ SELECTED_SCREEN_INDEX = primary_index
    /\ heap = <<>>
    /\ \E e \in [Requests -> {"relay", "orch"}] :
            reqs = [r \in Requests |->
                        [endpoint |-> e[r], pc |-> "new", state |-> 0, screens |-> <<>>]]

\* lines 426-438 and 487-489 with one module-level Session State that every
\* request uses
NewStateShared(r) ==
    /\ reqs[r].pc = "new"
    /\ IF \E q \in Requests : reqs[q].state # 0
       THEN LET other == (CHOOSE q \in Requests : reqs[q].state # 0)
                m == reqs[other].state
            IN /\ heap' = IF reqs[r].endpoint = "relay"
                          THEN HeapAppend(heap, heap[m].messages, [from |-> r, kind |-> "user"])
                          ELSE heap
               /\ reqs' = [reqs EXCEPT ![r].state = m, ![r].pc = "execute"]
       ELSE LET sid == Len(heap) + 1
                first == IF reqs[r].endpoint = "relay"
                         THEN <<[from |-> r, kind |-> "user"]>> ELSE <<>>
            IN /\ heap' = heap \o <<StateObject(sid + 1, sid + 2, sid + 3, RequestKey(r)),
                                    ContentObject(first), ContentObject(<<>>),
                                    ContentObject(<<>>)>>
               /\ reqs' = [reqs EXCEPT ![r].state = sid, ![r].pc = "execute"]
    /\ UNCHANGED <<concRest, ui_output, SELECTED_SCREEN_INDEX>>

\* lines 426-438 (/api/process-input) and 487-489 (the orchestrator): the
\* handler makes its Session State: state = {} and, in setup_state, a new
\* messages list (line 65), responses mapping (line 81) and tools mapping
\* (line 83); the credential is stored; /api/process-input appends the
\* user's message
NewState(r) ==
    /\ reqs[r].pc = "new"
    /\ LET sid == Len(heap) + 1
           first == IF reqs[r].endpoint = "relay"
                    THEN <<[from |-> r, kind |-> "user"]>> ELSE <<>>
       IN /\ heap' = heap \o <<StateObject(sid + 1, sid + 2, sid + 3, RequestKey(r)),
                               ContentObject(first), ContentObject(<<>>),
                               ContentObject(<<>>)>>
          /\ reqs' = [reqs EXCEPT ![r].state = sid, ![r].pc = "execute"]
    /\ UNCHANGED <<concRest, ui_output, SELECTED_SCREEN_INDEX>>

\* lines 493-511 and 221-228: the orchestrator appends the sub-task prompt
\* (EXECUTE); on either endpoint the relay generator starts, reads the global
\* and hands it to the adapter as selected_screen
StartRelay(r) ==
    /\ reqs[r].pc = "execute"
    /\ Len(reqs[r].screens) < MaxExec
    /\ heap' = IF reqs[r].endpoint = "orch"
               THEN HeapAppend(heap, heap[reqs[r].state].messages,
                               [from |-> r, kind |-> "user"])
               ELSE heap
    /\ reqs' = [reqs EXCEPT ![r].screens = Append(@, SELECTED_SCREEN_INDEX),
                            ![r].pc = "relay"]
    /\ UNCHANGED <<concRest, ui_output, SELECTED_SCREEN_INDEX>>

\* lines 156-157: the adapter of request r reports a tool output through
\* the callback bound to r's tools mapping (lines 447 and 507)
ToolOutput(r) ==
    /\ reqs[r].pc = "relay"
    /\ Len(heap[heap[reqs[r].state].tools].items) < MaxToolOutputs
    /\ heap' = HeapAppend(heap, heap[reqs[r].state].tools, [from |-> r, kind |-> "tool"])
    /\ UNCHANGED <<reqs, concRest, ui_output, SELECTED_SCREEN_INDEX>>

\* the adapter's sequence ends: /api/process-input closes the stream; the
\* orchestrator goes through DECIDE to another EXECUTE or ends
EndRelay(r) ==
    /\ reqs[r].pc = "relay"
    /\ \E next \in {"execute", "done"} :
        /\ reqs[r].endpoint = "relay" => next = "done"
        /\ reqs' = [reqs EXCEPT ![r].pc = next]
    /\ UNCHANGED <<heap, concRest, ui_output, SELECTED_SCREEN_INDEX>>

\* an event of the UI that is served, on the UI's thread
UiEvent ==
    /\ \E event \in ServedEvents :
        IF event = "select"
        THEN /\ \E name \in {SCREEN_NAMES[i] : i \in 1..Len(SCREEN_NAMES)} :
                    SELECTED_SCREEN_INDEX' = update_selected_screen(name) - 1
             /\ UNCHANGED ui_output
        ELSE /\ ui_output' = UiOutput("generator", "")
             /\ UNCHANGED SELECTED_SCREEN_INDEX
    /\ UNCHANGED <<heap, reqs, concRest>>

ConcNext ==
    \/ \E r \in Requests : NewState(r)
    \/ \E r \in Requests : StartRelay(r)
    \/ \E r \in Requests : ToolOutput(r)
    \/ \E r \in Requests : EndRelay(r)
    \/ UiEvent

SpecConc == ConcInit /\ [][ConcNext]_vars

\* the objects of request r's Session State
ObjectsOf(r) ==
    IF reqs[r].state = 0 THEN {}
    ELSE LET st == heap[reqs[r].state]
         IN {reqs[r].state, st.messages, st.responses, st.tools}

\* every item of every object of r's Session State was put there by r
OnlyOwnItems(r) ==
    \A ref \in ObjectsOf(r) :
        \A i \in 1..Len(heap[ref].items) : heap[ref].items[i].from = r

\* C15: the Session State is never shared across concurrent HTTP requests
\* to either endpoint: two requests have no object in common, and the state
\* of a request holds its own credential and only what its own steps wrote.
C15_SessionStateNeverShared ==
    /\ \A r1, r2 \in Requests :
            r1 # r2 => ObjectsOf(r1) \cap ObjectsOf(r2) = {}
    /\ \A r \in Requests :
            reqs[r].state # 0 =>
                /\ heap[reqs[r].state].api_key = RequestKey(r)
                /\ OnlyOwnItems(r)

C15_Witness ==
    /\ \A r \in Requests :
            /\ reqs[r].pc = "relay"
            /\ Len(heap[heap[reqs[r].state].messages].items) >= 1
            /\ Len(heap[heap[reqs[r].state].tools].items) = 1
    /\ reqs[1].endpoint # reqs[2].endpoint

\* the UI changes the global to another screen
SelectOtherScreen == UiEvent /\ SELECTED_SCREEN_INDEX' # SELECTED_SCREEN_INDEX

====
